---- MODULE Spec2Model ----
(***************************************************************************)
(* Notice-board service: the auth router (register, login, GET/PUT /me),   *)
(* the broadcast router (create, getById, update, delete) and the          *)
(* Broadcast schema with its pre-save expiry hook.                         *)
(*                                                                         *)
(* Time is counted in seconds.  Every route handler is an async function:  *)
(* each `await` on the store is a point where another request may run, so  *)
(* a handler with a read followed by a write is two steps, with the        *)
(* request kept in `inflight` between them.                                *)
(***************************************************************************)
EXTENDS Integers, FiniteSets, Sequences, Bags, TLC

\* ---------------------------------------------------------------- bounds
\* requests that may be between their read and their write at one time
MaxInflight == 2
\* getById is not started on a broadcast whose views reached this count
MaxViews == 2

\* ------------------------------------------------------- program constants
\* expiresIn: '7d'
SevenDays == 604800

\* ------------------------------------------------------------ value sets
\* instants the clock is observed at: around 0 and around 7 days later
Times == {0, 1, SevenDays, SevenDays + 1}
\* null (a Date field without a value)
NoDate == -1
Usernames == {"ann", "bob", "cy"}
Emails == {"a@x", "b@x", "c@x"}
Passwords == {"pw1", "pw2"}
Roles == {"user", "admin"}
Prefs == {"light", "dark"}
\* no Authorization header; a header that is no token
NoToken == [kind |-> "none"]
Malformed == [kind |-> "garbage"]
\* a request without a body, a response without a payload
NoBody == [kind |-> "none"]
NoData == [kind |-> "none"]

VARIABLES
    now,         \* new Date() / the clock jwt reads, in seconds
    users,       \* the User collection: _id -> document
    held,        \* user _id -> the token that user's client holds (the last
                 \* one this server signed for it), NoToken before the first
    broadcasts,  \* the Broadcast collection: _id -> document
    nextBid,     \* number of Broadcast _ids handed out so far
    inflight,    \* bag of requests between two awaits
    resp         \* the request answered by the last step and its response

vars == <<now, users, held, broadcasts, nextBid, inflight, resp>>

\* ---------------------------------------------------------------- helpers
Put(f, k, v) == [x \in DOMAIN f \cup {k} |-> IF x = k THEN v ELSE f[x]]
Drop(f, k) == [x \in DOMAIN f \ {k} |-> f[x]]
\* the document with the fields named in `set` overwritten
Overwrite(doc, set) ==
    [k \in DOMAIN doc |-> IF k \in DOMAIN set THEN set[k] ELSE doc[k]]
\* body[k], or `dflt` when the body has no such key
Field(body, k, dflt) == IF k \in DOMAIN body THEN body[k] ELSE dflt
InflightCount == BagCardinality(inflight)
Park(r) == inflight (+) SetToBag({r})
Unpark(r) == inflight (-) SetToBag({r})

\* A request (route, Authorization header, :id, body) and the answer
\* res.status(code).json({ success, message, token or data })
Reply(op, cred, target, body, code, msg, data) ==
    [op |-> op, cred |-> cred, target |-> target, body |-> body,
     code |-> code, msg |-> msg, data |-> data]

\* no request was answered by the last step
NoResp == Reply("none", NoToken, 0, NoBody, 0, "", NoData)

\* ------------------------------------------------------------ User model
\* (models/User.js is not among the sources: hashing, defaults and the
\* unique indexes follow the data model of the specification)
Hash(password) == "bcrypt:" \o password

comparePassword(user, password) == user.password = Hash(password)

NewUser(username, email, password) ==
    [username |-> username, email |-> email, password |-> Hash(password),
     role |-> "user", isActive |-> TRUE, lastLogin |-> NoDate,
     preferences |-> "light"]

\* a collection without the unique indexes
DuplicateKey_NoIndex(coll, id, doc) == FALSE

\* the unique indexes on email and username: a write of `doc` under `id`
\* is refused when another document holds the same email or username
DuplicateKey(coll, id, doc) ==
    \E o \in DOMAIN coll \ {id} :
        coll[o].email = doc.email \/ coll[o].username = doc.username

\* ---------------------------------------------------------------- tokens
\* a signer that gives an administrator a window twice as long
Sign_ByRole(id, role, t) ==
    [kind |-> "jwt", id |-> id, role |-> role, iat |-> t,
     exp |-> t + (IF role = "admin" THEN 2 * SevenDays ELSE SevenDays),
     sig |-> "server"]

\* jwt.sign({ id, role }, JWT_SECRET, { expiresIn: '7d' }) at time t
Sign(id, role, t) ==
    [kind |-> "jwt", id |-> id, role |-> role, iat |-> t,
     exp |-> t + SevenDays, sig |-> "server"]

\* a token of the right shape signed with some other key
Forged(t) == [Sign(1, "admin", t) EXCEPT !.sig = "other"]

\* what a client may put in the Authorization header
Credentials ==
    {held[id] : id \in DOMAIN held} \cup {NoToken, Malformed, Forged(now)}

\* the tokens the clients hold
Callers == {held[id] : id \in DOMAIN held}

\* middleware/auth.js is not among the sources: the guard of the
\* specification (4.2 validate, 4.3): signature and expiry
Verify(tok) == tok.kind = "jwt" /\ tok.sig = "server" /\ now <= tok.exp

\* req.user
Identity(tok) == [id |-> tok.id, role |-> tok.role]

Unauthorized(op, cred, target, body) ==
    Reply(op, cred, target, body, 401, "invalid or expired token", NoData)

\* the catch block of every route
ServerError(op, cred, target, body) ==
    Reply(op, cred, target, body, 500, "Server error", NoData)

\* ------------------------------------------------------------------ clock
Advance(t) ==
    /\ t > now
    /\ now' = t
    /\ resp' = NoResp
    /\ UNCHANGED <<users, held, broadcasts, nextBid, inflight>>

\* ------------------------------------------------------- routes/auth.js
\* the lookup by email alone
findByEmailOrUsername_EmailOnly(email, username) ==
    {id \in DOMAIN users : users[id].email = email}

\* User.findOne({ $or: [{ email }, { username }] }): the _ids that match
findByEmailOrUsername(email, username) ==
    {id \in DOMAIN users :
        users[id].email = email \/ users[id].username = username}

\* User.findOne({ email })
findByEmail(email) == {id \in DOMAIN users : users[id].email = email}

\* POST /register, up to the first write: the check for an existing user
registerCheck(username, email, password) ==
    /\ LET body == [username |-> username, email |-> email,
                    password |-> password]
       IN  IF findByEmailOrUsername(email, username) # {}
           THEN /\ resp' = Reply("register", NoToken, 0, body, 400,
                                 "User already exists", NoData)
                /\ inflight' = inflight
           ELSE /\ InflightCount < MaxInflight
                /\ inflight' = Park([kind |-> "register", body |-> body])
                /\ resp' = NoResp
    /\ UNCHANGED <<now, users, held, broadcasts, nextBid>>

\* POST /register, from user.save() on: insert, sign, respond; a refused
\* insert is caught and answered with 500
registerSave(r) ==
    /\ r \in BagToSet(inflight)
    /\ r.kind = "register"
    /\ inflight' = Unpark(r)
    /\ LET id == Cardinality(DOMAIN users) + 1
           user == NewUser(r.body.username, r.body.email, r.body.password)
           token == Sign(id, user.role, now)
       IN  IF DuplicateKey(users, id, user)
           THEN /\ resp' = ServerError("register", NoToken, 0, r.body)
                /\ UNCHANGED <<users, held>>
           ELSE /\ users' = Put(users, id, user)
                /\ held' = Put(held, id, token)
                /\ resp' = Reply("register", NoToken, 0, r.body, 201,
                                 "Registration successful", token)
    /\ UNCHANGED <<now, broadcasts, nextBid>>

\* the checks with a message of its own for an unknown email
loginCheck_Tells(found, password) ==
    IF found = {}
    THEN [code |-> 404, msg |-> "User not found"]
    ELSE LET user == users[CHOOSE id \in found : TRUE]
         IN  IF ~comparePassword(user, password)
             THEN [code |-> 400, msg |-> "Invalid credentials"]
             ELSE IF ~user.isActive
             THEN [code |-> 403, msg |-> "Account is deactivated"]
             ELSE [code |-> 200, msg |-> "Login successful"]

\* the checks with isActive looked at before the password
loginCheck_ActiveFirst(found, password) ==
    IF found = {}
    THEN [code |-> 400, msg |-> "Invalid credentials"]
    ELSE LET user == users[CHOOSE id \in found : TRUE]
         IN  IF ~user.isActive
             THEN [code |-> 403, msg |-> "Account is deactivated"]
             ELSE IF ~comparePassword(user, password)
             THEN [code |-> 400, msg |-> "Invalid credentials"]
             ELSE [code |-> 200, msg |-> "Login successful"]

\* the checks of POST /login in their order, from the users found by
\* email (no _id or one) and the password given: status and message
loginCheck(found, password) ==
    IF found = {}
    THEN [code |-> 400, msg |-> "Invalid credentials"]
    ELSE LET user == users[CHOOSE id \in found : TRUE]
         IN  IF ~comparePassword(user, password)
             THEN [code |-> 400, msg |-> "Invalid credentials"]
             ELSE IF ~user.isActive
             THEN [code |-> 403, msg |-> "Account is deactivated"]
             ELSE [code |-> 200, msg |-> "Login successful"]

\* POST /login
login(email, password) ==
    /\ LET body == [email |-> email, password |-> password]
           found == findByEmail(email)
           out == loginCheck(found, password)
       IN  IF out.code # 200
           THEN /\ resp' = Reply("login", NoToken, 0, body, out.code,
                                 out.msg, NoData)
                /\ UNCHANGED <<users, held>>
           ELSE LET id == CHOOSE i \in found : TRUE
                    token == Sign(id, users[id].role, now)
                IN  /\ users' = [users EXCEPT ![id].lastLogin = now]
                    /\ held' = Put(held, id, token)
                    /\ resp' = Reply("login", NoToken, 0, body, out.code,
                                     out.msg, token)
    /\ UNCHANGED <<now, broadcasts, nextBid, inflight>>

\* GET /me
getMe(tok) ==
    /\ resp' = IF ~Verify(tok) THEN Unauthorized("getMe", tok, 0, NoBody)
               ELSE Reply("getMe", tok, 0, NoBody, 200, "", NoData)
    /\ UNCHANGED <<now, users, held, broadcasts, nextBid, inflight>>

allowedUpdates == {"username", "email", "preferences"}

\* the body passed on as it came
filteredUpdates_All(updates) == updates

\* the keys of the body that are in allowedUpdates, with their values
filteredUpdates(updates) ==
    [k \in DOMAIN updates \cap allowedUpdates |-> updates[k]]

\* PUT /me: User.findByIdAndUpdate(req.user.id, filteredUpdates, ...)
putMe(tok, updates) ==
    /\ IF ~Verify(tok)
       THEN /\ resp' = Unauthorized("putMe", tok, 0, updates)
            /\ users' = users
       ELSE LET id == Identity(tok).id
                ok == Reply("putMe", tok, 0, updates, 200,
                            "Profile updated successfully", NoData)
            IN  IF id \notin DOMAIN users
                THEN resp' = ok /\ users' = users
                ELSE LET doc == Overwrite(users[id], filteredUpdates(updates))
                     IN  IF DuplicateKey(users, id, doc)
                         THEN /\ resp' = ServerError("putMe", tok, 0, updates)
                              /\ users' = users
                         ELSE /\ users' = [users EXCEPT ![id] = doc]
                              /\ resp' = ok
    /\ UNCHANGED <<now, held, broadcasts, nextBid, inflight>>

\* ------------------------------------------------------ models/Broadcast
Urgencies == {"low", "medium", "high"}
Types == {"announcement", "alert", "maintenance", "update", "news", "meeting"}
Statuses == {"active", "expired", "archived"}

\* the constructor handed the whole body, status included
NewBroadcast_WholeBody(body, createdBy) ==
    [title |-> Field(body, "title", ""),
     message |-> Field(body, "message", ""),
     urgency |-> Field(body, "urgency", "medium"),
     type |-> Field(body, "type", "announcement"),
     tags |-> Field(body, "tags", <<>>),
     createdBy |-> createdBy,
     expiryDate |-> Field(body, "expiryDate", NoDate),
     status |-> Field(body, "status", "active"),
     views |-> 0]

\* new Broadcast({ title, message, urgency, type, tags, expiryDate,
\* createdBy }): the schema defaults fill what the body leaves out (a
\* missing title or message is kept as the empty string, which `required`
\* refuses just the same)
NewBroadcast(body, createdBy) ==
    [title |-> Field(body, "title", ""),
     message |-> Field(body, "message", ""),
     urgency |-> Field(body, "urgency", "medium"),
     type |-> Field(body, "type", "announcement"),
     tags |-> Field(body, "tags", <<>>),
     createdBy |-> createdBy,
     expiryDate |-> Field(body, "expiryDate", NoDate),
     status |-> "active",
     views |-> 0]

\* the schema's validators, run by save() before the pre-save hook
Valid(doc) ==
    /\ doc.title # ""
    /\ doc.message # ""
    /\ doc.urgency \in Urgencies
    /\ doc.type \in Types
    /\ doc.status \in Statuses

\* broadcastSchema.pre('save')
preSave(doc) ==
    IF doc.expiryDate # NoDate /\ doc.expiryDate < now
    THEN [doc EXCEPT !.status = "expired"]
    ELSE doc

\* the paths an assignment marks modified: doc[k] = v marks k when v is not
\* the value the document holds
Modified(before, after) == {k \in DOMAIN after : after[k] # before[k]}

\* save() of a loaded document sends the modified paths alone: the stored
\* document after the write of the paths `dirty` of `doc`
Written(stored, doc, dirty) ==
    [k \in DOMAIN stored |-> IF k \in dirty THEN doc[k] ELSE stored[k]]

\* ------------------------------------------------------ broadcast routes
NotFound(op, cred, id, body) ==
    Reply(op, cred, id, body, 404, "Broadcast not found", NoData)

Forbidden(op, cred, id, body) ==
    Reply(op, cred, id, body, 403, "Not authorized", NoData)

\* the check with || written for && in the condition that rejects
mayChange_Either(doc, reqUser) ==
    ~(doc.createdBy # reqUser.id \/ reqUser.role # "admin")

\* the ownership check of PUT /:id and DELETE /:id, passed
mayChange(doc, reqUser) ==
    ~(doc.createdBy # reqUser.id /\ reqUser.role # "admin")

\* POST / without the guard in front: a caller without a valid token is
\* served as nobody
create_NoGuard(tok, body) ==
    /\ LET doc == NewBroadcast(body, IF Verify(tok) THEN Identity(tok).id ELSE 0)
           id == nextBid + 1
       IN  IF ~Valid(doc)
           THEN /\ resp' = ServerError("create", tok, 0, body)
                /\ UNCHANGED <<broadcasts, nextBid>>
           ELSE /\ broadcasts' = Put(broadcasts, id, preSave(doc))
                /\ nextBid' = id
                /\ resp' = Reply("create", tok, id, body, 201,
                       "Broadcast created successfully", preSave(doc))
    /\ UNCHANGED <<now, users, held, inflight>>

\* POST /
create(tok, body) ==
    /\ IF ~Verify(tok)
       THEN /\ resp' = Unauthorized("create", tok, 0, body)
            /\ UNCHANGED <<broadcasts, nextBid>>
       ELSE LET doc == NewBroadcast(body, Identity(tok).id)
                id == nextBid + 1
            IN  IF ~Valid(doc)
                THEN /\ resp' = ServerError("create", tok, 0, body)
                     /\ UNCHANGED <<broadcasts, nextBid>>
                ELSE /\ broadcasts' = Put(broadcasts, id, preSave(doc))
                     /\ nextBid' = id
                     /\ resp' = Reply("create", tok, id, body, 201,
                            "Broadcast created successfully", preSave(doc))
    /\ UNCHANGED <<now, users, held, inflight>>

\* GET /:id as a read that leaves the counter alone
getByIdLoad_Pure(id) ==
    /\ IF id \notin DOMAIN broadcasts
       THEN /\ resp' = NotFound("getById", NoToken, id, NoBody)
            /\ inflight' = inflight
       ELSE /\ InflightCount < MaxInflight
            /\ broadcasts[id].views < MaxViews
            /\ inflight' = Park([kind |-> "getById", id |-> id,
                    cred |-> NoToken, body |-> NoBody,
                    doc |-> broadcasts[id], dirty |-> {}])
            /\ resp' = NoResp
    /\ UNCHANGED <<now, users, held, broadcasts, nextBid>>

\* GET /:id up to save(): findById and the increment in memory
getByIdLoad(id) ==
    /\ IF id \notin DOMAIN broadcasts
       THEN /\ resp' = NotFound("getById", NoToken, id, NoBody)
            /\ inflight' = inflight
       ELSE /\ InflightCount < MaxInflight
            /\ broadcasts[id].views < MaxViews
            /\ inflight' = Park([kind |-> "getById", id |-> id,
                    cred |-> NoToken, body |-> NoBody,
                    doc |-> [broadcasts[id] EXCEPT !.views = @ + 1],
                    dirty |-> {"views"}])
            /\ resp' = NoResp
    /\ UNCHANGED <<now, users, held, broadcasts, nextBid>>

\* PUT /:id up to save(): findById, the ownership check and the overwrite
\* of the loaded document with every key of the body
updateLoad(tok, id, body) ==
    /\ IF ~Verify(tok)
       THEN resp' = Unauthorized("update", tok, id, body) /\ inflight' = inflight
       ELSE IF id \notin DOMAIN broadcasts
       THEN resp' = NotFound("update", tok, id, body) /\ inflight' = inflight
       ELSE IF ~mayChange(broadcasts[id], Identity(tok))
       THEN resp' = Forbidden("update", tok, id, body) /\ inflight' = inflight
       ELSE /\ InflightCount < MaxInflight
            /\ LET doc == Overwrite(broadcasts[id], body)
               IN  inflight' = Park([kind |-> "update", id |-> id,
                       cred |-> tok, body |-> body, doc |-> doc,
                       dirty |-> Modified(broadcasts[id], doc)])
            /\ resp' = NoResp
    /\ UNCHANGED <<now, users, held, broadcasts, nextBid>>

\* a save that puts the document back when the store no longer has it
save_Upsert(r, lost) ==
    /\ r \in BagToSet(inflight)
    /\ r.kind \in {"getById", "update"}
    /\ inflight' = Unpark(r)
    /\ LET doc == preSave(r.doc)
           dirty == r.dirty \cup Modified(r.doc, doc)
           ok == Reply(r.kind, r.cred, r.id, r.body, 200,
                       IF r.kind = "update"
                       THEN "Broadcast updated successfully" ELSE "", doc)
           failed == ServerError(r.kind, r.cred, r.id, r.body)
       IN  IF ~Valid(r.doc)
           THEN resp' = failed /\ broadcasts' = broadcasts
           ELSE IF dirty = {}
           THEN resp' = ok /\ broadcasts' = broadcasts
           ELSE IF r.id \notin DOMAIN broadcasts
           THEN resp' = ok /\ broadcasts' = Put(broadcasts, r.id, doc)
           ELSE /\ broadcasts' = [broadcasts EXCEPT
                        ![r.id] = Written(@, doc, dirty)]
                /\ resp' = ok
    /\ UNCHANGED <<now, users, held, nextBid>>

\* broadcast.save() of a loaded document and the response, for GET /:id
\* and PUT /:id: validation, the pre-save hook, then the modified paths are
\* written to the stored document.  When the document is gone the write
\* matches nothing: the store is left as it is, and save() either rejects
\* (caught: 500) or resolves, depending on the mongoose release (`lost`).
save(r, lost) ==
    /\ r \in BagToSet(inflight)
    /\ r.kind \in {"getById", "update"}
    /\ inflight' = Unpark(r)
    /\ LET doc == preSave(r.doc)
           dirty == r.dirty \cup Modified(r.doc, doc)
           ok == Reply(r.kind, r.cred, r.id, r.body, 200,
                       IF r.kind = "update"
                       THEN "Broadcast updated successfully" ELSE "", doc)
           failed == ServerError(r.kind, r.cred, r.id, r.body)
       IN  IF ~Valid(r.doc)
           THEN resp' = failed /\ broadcasts' = broadcasts
           ELSE IF dirty = {}
           THEN resp' = ok /\ broadcasts' = broadcasts
           ELSE IF r.id \notin DOMAIN broadcasts
           THEN resp' = (IF lost THEN failed ELSE ok) /\ broadcasts' = broadcasts
           ELSE /\ broadcasts' = [broadcasts EXCEPT
                        ![r.id] = Written(@, doc, dirty)]
                /\ resp' = ok
    /\ UNCHANGED <<now, users, held, nextBid>>

\* DELETE /:id up to remove(): findById and the ownership check
deleteLoad(tok, id) ==
    /\ IF ~Verify(tok)
       THEN resp' = Unauthorized("delete", tok, id, NoBody) /\ inflight' = inflight
       ELSE IF id \notin DOMAIN broadcasts
       THEN resp' = NotFound("delete", tok, id, NoBody) /\ inflight' = inflight
       ELSE IF ~mayChange(broadcasts[id], Identity(tok))
       THEN resp' = Forbidden("delete", tok, id, NoBody) /\ inflight' = inflight
       ELSE /\ InflightCount < MaxInflight
            /\ inflight' = Park([kind |-> "delete", id |-> id, cred |-> tok])
            /\ resp' = NoResp
    /\ UNCHANGED <<now, users, held, broadcasts, nextBid>>

\* broadcast.remove() and the response
remove(r) ==
    /\ r \in BagToSet(inflight)
    /\ r.kind = "delete"
    /\ inflight' = Unpark(r)
    /\ broadcasts' = IF r.id \in DOMAIN broadcasts
                     THEN Drop(broadcasts, r.id) ELSE broadcasts
    /\ resp' = Reply("delete", r.cred, r.id, NoBody, 200,
                     "Broadcast deleted successfully", NoData)
    /\ UNCHANGED <<now, users, held, nextBid>>

\* ---------------------------------------------------- list and statistics
\* the defaults of the query parameters page and limit, and the $limit of
\* recentActivity
DefaultPage == 1
DefaultLimit == 20
RecentLimit == 5

\* Texts are sequences of characters here, so that a pattern can be laid
\* along them.  $options: 'i' compares without regard to case.
Lower(c) == CASE c = "D" -> "d" [] c = "R" -> "r" [] c = "X" -> "x"
              [] OTHER -> c

\* the pattern read as a regular expression matches the text from position
\* i on: "." stands for any one character, every other character of these
\* patterns for itself
RegexAt(pattern, text, i) ==
    \A j \in 1..Len(pattern) :
        pattern[j] = "." \/ Lower(pattern[j]) = Lower(text[i + j - 1])

\* { $regex: search, $options: 'i' }: the pattern matches somewhere
RegexMatch(pattern, text) ==
    \E i \in 1..(Len(text) - Len(pattern) + 1) : RegexAt(pattern, text, i)

\* the query document GET / builds from req.query, applied to one stored
\* document: a parameter that is absent or the empty string adds no
\* condition, except status, which is 'active' when absent
Matches(doc, q) ==
    LET type == Field(q, "type", "")
        urgency == Field(q, "urgency", "")
        status == Field(q, "status", "active")
        search == Field(q, "search", <<>>)
    IN  /\ type # "" => doc.type = type
        /\ urgency # "" => doc.urgency = urgency
        /\ status # "" => doc.status = status
        /\ search # <<>> =>
               \/ RegexMatch(search, doc.title)
               \/ RegexMatch(search, doc.message)
               \/ \E t \in DOMAIN doc.tags : RegexMatch(search, doc.tags[t])

\* Broadcast.find(query) / countDocuments(query): the _ids that match
find(q) == {id \in DOMAIN broadcasts : Matches(broadcasts[id], q)}

\* .sort('-createdAt'): the newest first.  _ids are handed out in the order
\* of creation, so the order of createdAt is the order of the _ids.
RECURSIVE NewestFirst(_)
NewestFirst(ids) ==
    IF ids = {} THEN <<>>
    ELSE LET newest == CHOOSE x \in ids : \A y \in ids : y <= x
         IN  <<newest>> \o NewestFirst(ids \ {newest})

\* .skip(n) and .limit(n) of a cursor
Skip(seq, n) ==
    [i \in 1..(IF Len(seq) > n THEN Len(seq) - n ELSE 0) |-> seq[i + n]]
Limit(seq, n) ==
    [i \in 1..(IF Len(seq) < n THEN Len(seq) ELSE n) |-> seq[i]]

\* the quotient rounded down
Ceil_Floor(a, b) == a \div b

\* Math.ceil(a / b) for b > 0
Ceil(a, b) == (a + b - 1) \div b

\* GET /: the _ids of the documents of the page and the pagination block.
\* The two awaits (find, countDocuments) are taken as one step: nothing is
\* written where this route is exercised.
list(q) ==
    /\ LET page == Field(q, "page", DefaultPage)
           limit == Field(q, "limit", DefaultLimit)
           items == Limit(Skip(NewestFirst(find(q)), (page - 1) * limit), limit)
           total == Cardinality(find(q))
       IN  resp' = Reply("list", NoToken, 0, q, 200, "",
                         [items |-> items,
                          pagination |-> [page |-> page, limit |-> limit,
                                          total |-> total,
                                          pages |-> Ceil(total, limit)]])
    /\ UNCHANGED <<now, users, held, broadcasts, nextBid, inflight>>

\* { $count: 'count' } over the documents `ids`: one document with the
\* count, and no document at all when there is nothing to count
Count(ids) ==
    IF ids = {} THEN <<>> ELSE <<[count |-> Cardinality(ids)]>>

\* { $group: { _id: '$field', count: { $sum: 1 } } }: one document for
\* every value of the field that occurs
GroupBy(field) ==
    {[_id |-> v, count |-> Cardinality({id \in DOMAIN broadcasts :
                                            broadcasts[id][field] = v})] :
        v \in {broadcasts[id][field] : id \in DOMAIN broadcasts}}

\* GET /stats/summary: the $facet aggregation
stats ==
    /\ resp' = Reply("stats", NoToken, 0, NoBody, 200, "",
           [totalBroadcasts |-> Count(DOMAIN broadcasts),
            byUrgency |-> GroupBy("urgency"),
            byType |-> GroupBy("type"),
            activeBroadcasts |-> Count({id \in DOMAIN broadcasts :
                                     broadcasts[id].status = "active"}),
            recentActivity |->
                LET recent == Limit(NewestFirst(DOMAIN broadcasts), RecentLimit)
                IN  [i \in DOMAIN recent |->
                        [_id |-> recent[i],
                         title |-> broadcasts[recent[i]].title,
                         urgency |-> broadcasts[recent[i]].urgency]]])
    /\ UNCHANGED <<now, users, held, broadcasts, nextBid, inflight>>

\* ------------------------------------------------------------ request sets
\* bodies sent to POST /register: a free name and address, and each of
\* them paired with one that is taken
RegisterBodies ==
    {[username |-> "cy", email |-> "c@x", password |-> "pw1"],
     [username |-> "cy", email |-> "b@x", password |-> "pw1"],
     [username |-> "bob", email |-> "c@x", password |-> "pw1"]}

\* bodies sent to PUT /me
ProfileUpdates ==
    {[username |-> "cy"], [email |-> "c@x"], [username |-> "ann"],
     [role |-> "admin", isActive |-> FALSE, password |-> "pw2",
      preferences |-> "dark"]}

\* bodies sent to POST /
CreateBodies ==
    {[title |-> "drill", message |-> "at noon"],
     [title |-> "drill", message |-> "at noon", expiryDate |-> 0,
      status |-> "active"],
     [title |-> "drill", message |-> "at noon", status |-> "archived"],
     [message |-> "at noon"],
     [title |-> "drill", message |-> "at noon", urgency |-> "urgent"]}

\* bodies sent to PUT /:id
UpdateBodies ==
    {[status |-> "active"], [status |-> "archived"], [expiryDate |-> 0],
     [createdBy |-> 3], [status |-> "deleted"]}

\* broadcasts created in a run
MaxBroadcasts == 1

\* no request is between its read and its write
Idle == inflight = EmptyBag

\* ------------------------------------------------------------ the service
\* the store as the service finds it: an administrator and one member whose
\* account may have been deactivated (role and isActive are set by
\* administration outside these routes)
Seed(active) ==
    (1 :> [NewUser("ann", "a@x", "pw1") EXCEPT !.role = "admin"]) @@
    (2 :> [NewUser("bob", "b@x", "pw1") EXCEPT !.isActive = active])

Init ==
    /\ now = 0
    /\ \E active \in BOOLEAN : users = Seed(active)
    /\ held = [id \in {1, 2} |-> NoToken]
    /\ broadcasts = <<>>
    /\ nextBid = 0
    /\ inflight = EmptyBag
    /\ resp = NoResp

Next ==
    \/ \E t \in Times : Advance(t)
    \/ \E b \in RegisterBodies : registerCheck(b.username, b.email, b.password)
    \/ \E r \in BagToSet(inflight) : registerSave(r)
    \/ \E e \in Emails, p \in Passwords : login(e, p)
    \/ \E tok \in Credentials : getMe(tok)
    \/ \E tok \in Credentials, u \in ProfileUpdates : putMe(tok, u)
    \/ \E tok \in Credentials, b \in CreateBodies :
           nextBid < MaxBroadcasts /\ create(tok, b)
    \/ \E id \in 1..MaxBroadcasts : getByIdLoad(id)
    \/ \E tok \in Credentials, id \in 1..MaxBroadcasts, b \in UpdateBodies :
           updateLoad(tok, id, b)
    \/ \E r \in BagToSet(inflight), lost \in BOOLEAN : save(r, lost)
    \/ \E tok \in Credentials, id \in 1..MaxBroadcasts : deleteLoad(tok, id)
    \/ \E r \in BagToSet(inflight) : remove(r)

Spec == Init /\ [][Next]_vars

\* -------------------------------------------------- the auth routes alone
\* registrations overlap; the clock is read before and after the tokens
\* signed at 0 have run out
NextAuth ==
    \/ \E t \in {SevenDays + 1} : Advance(t)
    \/ \E b \in RegisterBodies : registerCheck(b.username, b.email, b.password)
    \/ \E r \in BagToSet(inflight) : registerSave(r)
    \/ \E e \in Emails, p \in Passwords : login(e, p)
    \/ \E tok \in Credentials : getMe(tok)
    \/ \E tok \in Credentials, u \in ProfileUpdates : putMe(tok, u)

SpecAuth == Init /\ [][NextAuth]_vars

\* ------------------------------------------------- tokens over the clock
NextSession ==
    \/ \E t \in Times : Advance(t)
    \/ \E b \in {[username |-> "cy", email |-> "c@x", password |-> "pw1"]} :
           registerCheck(b.username, b.email, b.password)
    \/ \E r \in BagToSet(inflight) : registerSave(r)
    \/ \E e \in {"a@x", "b@x"}, p \in {"pw1"} : login(e, p)
    \/ \E tok \in Credentials : getMe(tok)

SpecSession == Init /\ [][NextSession]_vars

\* ------------------------------------- the routes behind the auth guard
\* a store with three accounts, each client holding a token signed at 0:
\* the administrator and the member after their logins, and a third
\* member after her registration
InitBroadcast ==
    /\ now = 0
    /\ users = [Put(Seed(TRUE), 3, NewUser("cy", "c@x", "pw1"))
                   EXCEPT ![1].lastLogin = 0, ![2].lastLogin = 0]
    /\ held = [id \in {1, 2, 3} |-> Sign(id, users[id].role, 0)]
    /\ broadcasts = <<>>
    /\ nextBid = 0
    /\ inflight = EmptyBag
    /\ resp = NoResp

\* create, update and delete with the requests served one at a time: a
\* request is taken up when the one before it has been answered; the callers are
\* the three clients with the tokens they hold, before and after the
\* expiryDate 0 has passed
NextBroadcast ==
    \/ \E t \in {1} : Advance(t)
    \/ \E tok \in Callers, b \in CreateBodies :
           nextBid < MaxBroadcasts /\ create(tok, b)
    \/ \E tok \in Callers, id \in 1..MaxBroadcasts, b \in UpdateBodies :
           Idle /\ updateLoad(tok, id, b)
    \/ \E r \in BagToSet(inflight), lost \in BOOLEAN : save(r, lost)
    \/ \E tok \in Callers, id \in 1..MaxBroadcasts :
           Idle /\ deleteLoad(tok, id)
    \/ \E r \in BagToSet(inflight) : remove(r)

SpecBroadcast == InitBroadcast /\ [][NextBroadcast]_vars

\* every route behind the auth guard, the requests served one at a time
NextGuard ==
    \/ \E t \in Times : Advance(t)
    \/ \E tok \in Credentials, b \in {[title |-> "drill", message |-> "at noon"]} :
           nextBid < MaxBroadcasts /\ create(tok, b)
    \/ \E tok \in Credentials, id \in 1..MaxBroadcasts, b \in {[status |-> "archived"]} :
           Idle /\ updateLoad(tok, id, b)
    \/ \E r \in BagToSet(inflight), lost \in BOOLEAN : save(r, lost)
    \/ \E tok \in Credentials, id \in 1..MaxBroadcasts :
           Idle /\ deleteLoad(tok, id)
    \/ \E r \in BagToSet(inflight) : remove(r)
    \/ \E tok \in Credentials : getMe(tok)
    \/ \E tok \in Credentials, u \in {[preferences |-> "dark"]} : putMe(tok, u)

SpecGuard == InitBroadcast /\ [][NextGuard]_vars

\* bodies sent to PUT /:id by the requests that overlap
RaceBodies == {[status |-> "active"], [status |-> "archived"],
               [expiryDate |-> 0]}

\* the broadcast routes with up to MaxInflight requests overlapping, all
\* sent by the member who owns the broadcast
NextRace ==
    \/ \E t \in {1} : Advance(t)
    \/ \E b \in {[title |-> "drill", message |-> "at noon"]} :
           nextBid < MaxBroadcasts /\ create(held[2], b)
    \/ \E id \in 1..MaxBroadcasts : getByIdLoad(id)
    \/ \E id \in 1..MaxBroadcasts, b \in RaceBodies :
           updateLoad(held[2], id, b)
    \/ \E r \in BagToSet(inflight), lost \in BOOLEAN : save(r, lost)
    \/ \E id \in 1..MaxBroadcasts : deleteLoad(held[2], id)
    \/ \E r \in BagToSet(inflight) : remove(r)

SpecRace == InitBroadcast /\ [][NextRace]_vars

\* ------------------------------------------- requests around a deletion
\* the owner's create, read, update and delete with up to MaxInflight
\* requests overlapping
NextDelete ==
    \/ \E b \in {[title |-> "drill", message |-> "at noon"]} :
           nextBid < MaxBroadcasts /\ create(held[2], b)
    \/ \E id \in 1..MaxBroadcasts : getByIdLoad(id)
    \/ \E id \in 1..MaxBroadcasts, b \in {[status |-> "archived"]} :
           updateLoad(held[2], id, b)
    \/ \E r \in BagToSet(inflight), lost \in BOOLEAN : save(r, lost)
    \/ \E id \in 1..MaxBroadcasts : deleteLoad(held[2], id)
    \/ \E r \in BagToSet(inflight) : remove(r)

SpecDelete == InitBroadcast /\ [][NextDelete]_vars

\* ------------------------------------------- reads of a single broadcast
\* bodies the owner sends to POST / and to PUT /:id between the reads
ViewsCreateBodies ==
    {[title |-> "drill", message |-> "at noon"],
     [title |-> "drill", message |-> "at noon", expiryDate |-> 0]}
ViewsUpdateBodies ==
    {[status |-> "archived"], [expiryDate |-> 0], [title |-> "drill 2"]}

\* GET /:id among the owner's requests, served one at a time
NextViews ==
    \/ \E t \in {1} : Advance(t)
    \/ \E b \in ViewsCreateBodies :
           nextBid < MaxBroadcasts /\ create(held[2], b)
    \/ \E id \in 1..MaxBroadcasts : Idle /\ getByIdLoad(id)
    \/ \E id \in 1..MaxBroadcasts, b \in ViewsUpdateBodies :
           Idle /\ updateLoad(held[2], id, b)
    \/ \E r \in BagToSet(inflight), lost \in BOOLEAN : save(r, lost)
    \/ \E id \in 1..MaxBroadcasts : Idle /\ deleteLoad(held[2], id)
    \/ \E r \in BagToSet(inflight) : remove(r)

SpecViews == InitBroadcast /\ [][NextViews]_vars

\* ------------------------------------------------ the routes that only read
\* collections of up to MaxListed broadcasts and one of ManyListed
MaxListed == 2
ManyListed == 45

\* stored broadcasts that differ in what GET / filters on
Listed ==
    LET base == NewBroadcast([title |-> <<"D", "r">>, message |-> <<"x">>], 2)
    IN  {base,
         [base EXCEPT !.title = <<"x">>, !.tags = <<<<"r", "d">>>>,
                      !.type = "alert", !.urgency = "high"],
         [base EXCEPT !.title = <<"d", "r">>, !.status = "archived"],
         [base EXCEPT !.title = <<"x", ".">>, !.status = "expired",
                      !.expiryDate = 0]}

Collections ==
    UNION {[1..n -> Listed] : n \in 0..MaxListed}
    \cup {[id \in 1..n |-> CHOOSE d \in Listed : d.status = "active" /\ d.tags = <<>>] :
             n \in {RecentLimit + 1, ManyListed}}

\* req.query of GET /: the filters, and the window
ListFilters ==
    {<<>>, [status |-> "archived"], [status |-> ""], [type |-> "alert"],
     [urgency |-> "high"], [search |-> <<"r">>], [search |-> <<"R", "d">>],
     [search |-> <<".">>], [search |-> <<"d", ".">>],
     [status |-> "archived", search |-> <<"D">>]}
ListWindows ==
    {<<>>, [limit |-> 1]} \cup
    {[page |-> p, limit |-> l] : p \in 1..3, l \in {1, 2, DefaultLimit}}

InitList ==
    /\ now = 1
    /\ users = Seed(TRUE)
    /\ held = [id \in {1, 2} |-> Sign(id, users[id].role, 0)]
    /\ broadcasts \in Collections
    /\ nextBid = Cardinality(DOMAIN broadcasts)
    /\ inflight = EmptyBag
    /\ resp = NoResp

NextList ==
    \/ \E f \in ListFilters, w \in ListWindows : list(f @@ w)
    \/ stats

SpecList == InitList /\ [][NextList]_vars

\* ================================================================ claims
\* a stored date that lies before the clock
Past(date) == date # NoDate /\ date < now

\* the caller neither is the creator of the stored broadcast nor has the
\* role admin
Stranger(tok, id) ==
    broadcasts[id].createdBy # tok.id /\ tok.role # "admin"

\* C1: PUT /:id and DELETE /:id by an authenticated caller who neither
\* created the broadcast nor has the role admin are answered 403 "Not
\* authorized" and leave the collection as it was, and no such request is
\* let through to its write; the creator and an admin are not answered 403.
C1_OwnerOrAdminOnly ==
    [][/\ resp'.op \in {"update", "delete"} =>
             LET tok == resp'.cred
                 id == resp'.target
             IN  (/\ id \in DOMAIN broadcasts
                  /\ Verify(tok)
                  /\ IF resp'.op = "delete" THEN deleteLoad(tok, id)
                     ELSE updateLoad(tok, id, resp'.body))
                 => IF Stranger(tok, id)
                    THEN /\ resp'.code = 403
                         /\ resp'.msg = "Not authorized"
                         /\ broadcasts' = broadcasts
                    ELSE resp'.code # 403
       /\ \A r \in BagToSet(inflight') :
             (/\ inflight' = Park(r)
              /\ r.kind \in {"update", "delete"})
             => ~Stranger(r.cred, r.id)]_vars

\* a member was refused the change of a broadcast another member created
C1_Witness ==
    /\ resp.op \in {"update", "delete"}
    /\ resp.code = 403
    /\ resp.target \in DOMAIN broadcasts
    /\ broadcasts[resp.target].createdBy # resp.cred.id
    /\ resp.cred.role = "user"

\* C2: right after a save that was answered with success (create, getById,
\* update), a stored broadcast whose expiryDate lies before the clock has
\* the status expired, whatever status the body gave.
C2_ExpiredWhenWritten ==
    (/\ resp.op \in {"create", "getById", "update"}
     /\ resp.code \in {200, 201}
     /\ resp.target \in DOMAIN broadcasts)
    => LET b == broadcasts[resp.target]
       IN  Past(b.expiryDate) => b.status = "expired"

\* an update with status active in its body was stored as expired
C2_Witness ==
    /\ resp.op = "update"
    /\ resp.code = 200
    /\ resp.body = [status |-> "active"]
    /\ resp.target \in DOMAIN broadcasts
    /\ Past(broadcasts[resp.target].expiryDate)
    /\ broadcasts[resp.target].status = "expired"

\* C3: a broadcast just created has the caller's id as createdBy, views 0
\* and the status expired when the expiryDate of the body lies before the
\* clock, active otherwise; a status in the body is not used.
C3_Created ==
    (resp.op = "create" /\ resp.code = 201)
    => /\ resp.target \in DOMAIN broadcasts
       /\ LET b == broadcasts[resp.target]
          IN  /\ b.createdBy = resp.cred.id
              /\ b.views = 0
              /\ b.status = IF Past(Field(resp.body, "expiryDate", NoDate))
                            THEN "expired" ELSE "active"

\* a broadcast was created with another status than its body asked for
C3_Witness ==
    /\ resp.op = "create"
    /\ resp.code = 201
    /\ "status" \in DOMAIN resp.body
    /\ resp.target \in DOMAIN broadcasts
    /\ broadcasts[resp.target].status # resp.body.status

\* what the client sees of a response
Http(r) == [code |-> r.code, msg |-> r.msg, data |-> r.data]

\* some stored user has this email, this username
EmailTaken(email) == \E id \in DOMAIN users : users[id].email = email
NameTaken(username) == \E id \in DOMAIN users : users[id].username = username

\* C4: no two stored users have the same email, and no two the same
\* username, whatever registrations and profile updates overlap.
C4_UniqueUsers ==
    \A a \in DOMAIN users, b \in DOMAIN users :
        a # b => /\ users[a].email # users[b].email
                 /\ users[a].username # users[b].username

\* a registration passed the check for an existing user and its insert
\* was refused: another one took the name or the address in between
C4_Witness ==
    /\ resp.op = "register"
    /\ resp.code = 500
    /\ EmailTaken(resp.body.email)
    /\ NameTaken(resp.body.username)
    /\ Cardinality(DOMAIN users) = 3

\* C5: POST /register with an email or a username that a stored user has
\* is answered 400 "User already exists" without a token, the same
\* whichever of the two is taken, and the users are left as they were.
C5_RegisterConflict ==
    [][\A b \in RegisterBodies :
          (/\ EmailTaken(b.email) \/ NameTaken(b.username)
           /\ resp'.op \in {"register", "none"}
           /\ registerCheck(b.username, b.email, b.password))
          => /\ Http(resp') = [code |-> 400, msg |-> "User already exists",
                               data |-> NoData]
             /\ users' = users
             /\ held' = held]_vars

\* a registration was refused for its username alone
C5_Witness ==
    /\ resp.op = "register"
    /\ resp.code = 400
    /\ NameTaken(resp.body.username)
    /\ ~EmailTaken(resp.body.email)

\* C6: POST /login with an email no user has and POST /login with a
\* user's email and another password than that user's get the same
\* response: 400 "Invalid credentials" and no token.
C6_SameRefusal ==
    [][\A e \in Emails, p \in Passwords :
          (/\ resp'.op = "login"
           /\ resp'.body = [email |-> e, password |-> p]
           /\ \/ ~EmailTaken(e)
              \/ \E id \in DOMAIN users : /\ users[id].email = e
                                          /\ users[id].password # Hash(p)
           /\ login(e, p))
          => Http(resp') = [code |-> 400, msg |-> "Invalid credentials",
                            data |-> NoData]]_vars

\* a login with an email that no user has was refused
C6_Witness ==
    /\ resp.op = "login"
    /\ resp.code = 400
    /\ ~EmailTaken(resp.body.email)

\* C7: POST /login for a user with isActive false is answered 403
\* "Account is deactivated" when the password is that user's and 400
\* "Invalid credentials" when it is not; either way no token is signed
\* and no user changes, lastLogin included.
C7_Deactivated ==
    [][\A e \in Emails, p \in Passwords, id \in DOMAIN users :
          (/\ resp'.op = "login"
           /\ resp'.body = [email |-> e, password |-> p]
           /\ users[id].email = e
           /\ ~users[id].isActive
           /\ login(e, p))
          => /\ Http(resp') =
                  IF users[id].password = Hash(p)
                  THEN [code |-> 403, msg |-> "Account is deactivated",
                        data |-> NoData]
                  ELSE [code |-> 400, msg |-> "Invalid credentials",
                        data |-> NoData]
             /\ users' = users
             /\ held' = held]_vars

\* a deactivated member gave the right password and was refused
C7_Witness ==
    /\ resp.op = "login"
    /\ resp.code = 403
    /\ \E id \in DOMAIN users : /\ users[id].email = resp.body.email
                                /\ users[id].password = Hash(resp.body.password)
                                /\ ~users[id].isActive

\* C8: PUT /me leaves role, password, isActive and lastLogin of the caller
\* and every field of every other user as they were, whatever keys the
\* body has.
C8_ProfileFrame ==
    [][\A tok \in Credentials, u \in ProfileUpdates :
          (/\ resp'.op = "putMe"
           /\ resp'.cred = tok
           /\ resp'.body = u
           /\ putMe(tok, u))
          => /\ DOMAIN users' = DOMAIN users
             /\ \A id \in DOMAIN users :
                   /\ users'[id].role = users[id].role
                   /\ users'[id].password = users[id].password
                   /\ users'[id].isActive = users[id].isActive
                   /\ users'[id].lastLogin = users[id].lastLogin
                   /\ (tok.kind = "jwt" /\ id = tok.id) \/ users'[id] = users[id]
       ]_vars

\* a profile update whose body named role, password and isActive went
\* through, and the caller is a member with her password as before
C8_Witness ==
    /\ resp.op = "putMe"
    /\ resp.code = 200
    /\ {"role", "password", "isActive"} \subseteq DOMAIN resp.body
    /\ users[resp.cred.id].preferences = resp.body.preferences
    /\ users[resp.cred.id].role = "user"
    /\ users[resp.cred.id].password = Hash("pw1")

\* a token this server signed: the payload and the signature of jwt.sign
ServerSigned(tok) == tok.kind = "jwt" /\ tok.sig = "server"

BadCredential(tok) ==
    \/ tok.kind # "jwt"
    \/ tok.sig # "server"
    \/ now > tok.iat + SevenDays

\* C10: create, update and delete of a broadcast, GET /me and PUT /me with
\* a missing, malformed, wrongly signed or expired token are answered 401
\* and leave the users, the broadcasts and the requests under way as they
\* were.
C10_GuardRejects ==
    [][\A tok \in Credentials :
          (/\ BadCredential(tok)
           /\ resp'.cred = tok
           /\ \/ \E b \in CreateBodies : create(tok, b)
              \/ \E id \in 1..MaxBroadcasts, b \in UpdateBodies :
                     updateLoad(tok, id, b)
              \/ \E id \in 1..MaxBroadcasts : deleteLoad(tok, id)
              \/ getMe(tok)
              \/ \E u \in ProfileUpdates : putMe(tok, u))
          => /\ resp'.code = 401
             /\ users' = users
             /\ broadcasts' = broadcasts
             /\ inflight' = inflight]_vars

\* the owner of a stored broadcast asked for its change with her token run
\* out and was turned away
C10_Witness ==
    /\ resp.op = "update"
    /\ resp.code = 401
    /\ ServerSigned(resp.cred)
    /\ now > resp.cred.exp
    /\ resp.target \in DOMAIN broadcasts
    /\ broadcasts[resp.target].createdBy = resp.cred.id

\* the term occurs in the text, letter case aside
Occurs(term, text) ==
    \E i \in 1..(Len(text) - Len(term) + 1) :
        \A j \in 1..Len(term) : Lower(term[j]) = Lower(text[i + j - 1])

\* the stored broadcasts a list request is to return by its filters
Requested(q) ==
    {id \in DOMAIN broadcasts :
        LET b == broadcasts[id]
        IN  /\ b.status = Field(q, "status", "active")
            /\ "type" \in DOMAIN q => b.type = q.type
            /\ "urgency" \in DOMAIN q => b.urgency = q.urgency
            /\ "search" \in DOMAIN q =>
                   \/ Occurs(q.search, b.title)
                   \/ Occurs(q.search, b.message)
                   \/ \E t \in DOMAIN b.tags : Occurs(q.search, b.tags[t])}

\* C11: GET / matches a stored broadcast exactly when its status is the
\* requested one (active when none is given), its type and its urgency are
\* the requested ones when given, and the search term, when given, occurs
\* without regard to case in its title, its message or one of its tags:
\* the total is the number of these broadcasts and every item is one.
C11_ListFilters ==
    resp.op = "list" =>
        /\ resp.data.pagination.total = Cardinality(Requested(resp.body))
        /\ \A i \in DOMAIN resp.data.items :
               resp.data.items[i] \in Requested(resp.body)

\* a term found in the tags alone brought the broadcast up
C11_Witness ==
    /\ resp.op = "list"
    /\ resp.body = [search |-> <<"R", "d">>]
    /\ \E i \in DOMAIN resp.data.items :
           LET b == broadcasts[resp.data.items[i]]
           IN  /\ ~Occurs(resp.body.search, b.title)
               /\ ~Occurs(resp.body.search, b.message)
               /\ \E t \in DOMAIN b.tags : Occurs(resp.body.search, b.tags[t])

\* the page-th window of `limit` items of a sequence, as the route cuts it
PageOf(seq, page, limit) == Limit(Skip(seq, (page - 1) * limit), limit)

\* C12: with N broadcasts matching, page p and limit L, GET / returns the
\* items at the positions (p-1)*L+1 .. min(p*L, N) of the matching
\* broadcasts, newest first, total = N whatever p and L are, and pages =
\* ceil(N/L); the pages 1..ceil(N/L) hold every matching item once.
C12_Pagination ==
    resp.op = "list" =>
        LET p == Field(resp.body, "page", DefaultPage)
            L == Field(resp.body, "limit", DefaultLimit)
            all == NewestFirst(find(resp.body))
            N == Len(all)
            first == (p - 1) * L + 1
            last == IF p * L < N THEN p * L ELSE N
            pg == resp.data.pagination
        IN  /\ resp.data.items = [i \in 1..(IF last < first THEN 0 ELSE last - first + 1)
                                     |-> all[first + i - 1]]
            /\ pg.total = N
            /\ pg.pages * L >= N
            /\ (pg.pages - 1) * L < N
            /\ pg.pages >= 0
            /\ \A pos \in 1..N :
                   Cardinality({<<k, i>> \in (1..pg.pages) \X (1..L) :
                       /\ i \in DOMAIN PageOf(all, k, L)
                       /\ PageOf(all, k, L)[i] = all[pos]}) = 1

\* 45 broadcasts match, the limit is 20: the third of 3 pages has 5 items
C12_Witness ==
    /\ resp.op = "list"
    /\ resp.data.pagination = [page |-> 3, limit |-> 20, total |-> 45,
                               pages |-> 3]
    /\ Len(resp.data.items) = 5

\* C13: with the requests served one at a time, a GET /:id of a stored
\* broadcast that succeeds raises its stored views by exactly 1, returns
\* the raised value and leaves the views of every other broadcast alone
\* (so two reads raise it by 2); a GET /:id of an id that is not stored is
\* answered 404 and changes no broadcast.
C13_ViewsPlusOne ==
    [][/\ \A id \in 1..MaxBroadcasts :
             (/\ resp'.op = "getById"
              /\ id \notin DOMAIN broadcasts
              /\ getByIdLoad(id))
             => /\ resp'.code = 404
                /\ resp'.msg = "Broadcast not found"
                /\ broadcasts' = broadcasts
       /\ \A r \in BagToSet(inflight), lost \in BOOLEAN :
             (/\ resp'.op = "getById"
              /\ resp'.code = 200
              /\ r.kind = "getById"
              /\ save(r, lost))
             => /\ r.id \in DOMAIN broadcasts'
                /\ broadcasts'[r.id].views = broadcasts[r.id].views + 1
                /\ resp'.data.views = broadcasts'[r.id].views
                /\ \A o \in DOMAIN broadcasts \ {r.id} :
                       broadcasts'[o].views = broadcasts[o].views]_vars

\* the second read in a row of a broadcast created with views 0 returned 2
C13_Witness ==
    /\ resp.op = "getById"
    /\ resp.code = 200
    /\ resp.data.views = 2
    /\ broadcasts[resp.target].views = 2

\* C14: however GET /:id requests on one broadcast overlap, its stored
\* views never goes down, and every request that completes on the stored
\* broadcast adds 1 to it, so that n completed requests add n.
C14_NoLostView ==
    [][/\ \A id \in DOMAIN broadcasts \cap DOMAIN broadcasts' :
             broadcasts'[id].views >= broadcasts[id].views
       /\ \A r \in BagToSet(inflight), lost \in BOOLEAN :
             (/\ resp'.op = "getById"
              /\ resp'.code = 200
              /\ r.kind = "getById"
              /\ r.id \in DOMAIN broadcasts
              /\ save(r, lost))
             => broadcasts'[r.id].views = broadcasts[r.id].views + 1]_vars

\* a read was answered while another read of the same broadcast, loaded
\* before that write, is still to save the same count
C14_Witness ==
    /\ resp.op = "getById"
    /\ resp.code = 200
    /\ resp.target \in DOMAIN broadcasts
    /\ \E r \in BagToSet(inflight) :
           /\ r.kind = "getById"
           /\ r.id = resp.target
           /\ r.doc.views = broadcasts[resp.target].views

\* C15: the createdBy of a stored broadcast never changes, whatever
\* request is served, an update with a createdBy key in its body included.
C15_CreatedByFixed ==
    [][\A id \in DOMAIN broadcasts \cap DOMAIN broadcasts' :
          broadcasts'[id].createdBy = broadcasts[id].createdBy]_vars

\* an update with createdBy in its body went through
C15_Witness ==
    /\ resp.op = "update"
    /\ resp.code = 200
    /\ "createdBy" \in DOMAIN resp.body
    /\ resp.target \in DOMAIN broadcasts

\* the request answered by the step is an update of broadcast `id` whose
\* body gives a status
StatusUpdate(r, id) ==
    r.op = "update" /\ r.target = id /\ "status" \in DOMAIN r.body

\* C16: a stored broadcast gets the status archived only by an update
\* whose body gives status archived, is not created archived, and once
\* archived keeps that status until an update whose body gives another
\* status, also when its expiryDate has passed.
C16_ArchivedByHand ==
    [][\A id \in DOMAIN broadcasts' :
          IF id \notin DOMAIN broadcasts
          THEN broadcasts'[id].status # "archived"
          ELSE /\ (/\ broadcasts[id].status # "archived"
                   /\ broadcasts'[id].status = "archived")
                  => StatusUpdate(resp', id) /\ resp'.body.status = "archived"
               /\ (/\ broadcasts[id].status = "archived"
                   /\ broadcasts'[id].status # "archived")
                  => StatusUpdate(resp', id) /\ resp'.body.status # "archived"
      ]_vars

\* an archived broadcast was read and is still archived
C16_Witness ==
    /\ resp.op = "getById"
    /\ resp.code = 200
    /\ resp.target \in DOMAIN broadcasts
    /\ broadcasts[resp.target].status = "archived"
    /\ broadcasts[resp.target].views > 0

\* the body of a create leaves out title or message, or gives an urgency
\* or a type outside the enum
InvalidCreate(body) ==
    \/ "title" \notin DOMAIN body
    \/ "message" \notin DOMAIN body
    \/ "urgency" \in DOMAIN body /\ body.urgency \notin Urgencies
    \/ "type" \in DOMAIN body /\ body.type \notin Types

\* C18: POST / with a body without title or message, or with an urgency or
\* type outside its enum, is answered 400 and stores no broadcast.
C18_ValidationIs400 ==
    [][\A b \in CreateBodies :
          (/\ resp'.op = "create"
           /\ resp'.body = b
           /\ InvalidCreate(b)
           /\ Verify(resp'.cred)
           /\ create(resp'.cred, b))
          => /\ resp'.code = 400
             /\ broadcasts' = broadcasts]_vars

\* a create without a title was turned down and nothing was stored
C18_Witness ==
    /\ resp.op = "create"
    /\ "title" \notin DOMAIN resp.body
    /\ resp.code >= 400
    /\ broadcasts = <<>>

\* C19: the save of a GET /:id changes no field of the stored broadcast
\* other than views: in particular a broadcast stored as active whose
\* expiryDate has passed is still stored as active after the read.
C19_ReadFrame ==
    [][\A r \in BagToSet(inflight), lost \in BOOLEAN :
          (/\ resp'.op = "getById"
           /\ r.kind = "getById"
           /\ r.id \in DOMAIN broadcasts
           /\ save(r, lost))
          => /\ r.id \in DOMAIN broadcasts'
             /\ \A k \in DOMAIN broadcasts[r.id] \ {"views"} :
                    broadcasts'[r.id][k] = broadcasts[r.id][k]]_vars

\* a broadcast whose expiryDate is still to come was read: only its views
\* moved
C19_Witness ==
    /\ resp.op = "getById"
    /\ resp.code = 200
    /\ resp.target \in DOMAIN broadcasts
    /\ broadcasts[resp.target].status = "active"
    /\ broadcasts[resp.target].expiryDate = 0
    /\ broadcasts[resp.target].views = 2
    /\ now = 0

\* the counts of a set of groups, added up
RECURSIVE SumCounts(_)
SumCounts(groups) ==
    IF groups = {} THEN 0
    ELSE LET g == CHOOSE x \in groups : TRUE
         IN  g.count + SumCounts(groups \ {g})

\* C17: GET /stats/summary changes no stored record and reports a total
\* that is the number of stored broadcasts, counts by urgency and counts by
\* type that each add up to it, an active count that is the number of
\* broadcasts stored as active, and the min(5, total) broadcasts created
\* last, newest first; on an empty collection the total and the active
\* count it reports are 0 and the recent list is empty.
C17_SummaryStats ==
    [][(resp'.op = "stats" /\ stats) =>
          LET N == Cardinality(DOMAIN broadcasts)
              active == Cardinality({id \in DOMAIN broadcasts :
                                        broadcasts[id].status = "active"})
              d == resp'.data
          IN  /\ broadcasts' = broadcasts
              /\ resp'.code = 200
              /\ d.totalBroadcasts = <<[count |-> N]>>
              /\ SumCounts(d.byUrgency) = N
              /\ SumCounts(d.byType) = N
              /\ d.activeBroadcasts = <<[count |-> active]>>
              /\ Len(d.recentActivity) = (IF N < 5 THEN N ELSE 5)
              /\ \A i \in DOMAIN d.recentActivity :
                     /\ d.recentActivity[i]._id = N - i + 1
                     /\ d.recentActivity[i].title = broadcasts[N - i + 1].title
      ]_vars

\* the statistics of six stored broadcasts: the five created last are
\* listed
C17_Witness ==
    /\ resp.op = "stats"
    /\ resp.code = 200
    /\ Cardinality(DOMAIN broadcasts) = 6
    /\ Len(resp.data.recentActivity) = 5
    /\ resp.data.totalBroadcasts = <<[count |-> 6]>>

\* C20: a broadcast that was deleted stays out of the store whatever is
\* served afterwards, the save of a GET /:id or PUT /:id that had loaded it
\* before the deletion included, and a GET /:id, PUT /:id or DELETE /:id
\* of it that starts after the deletion is answered 404.
C20_DeletedForGood ==
    [][\A id \in 1..nextBid :
          id \notin DOMAIN broadcasts =>
              /\ id \notin DOMAIN broadcasts'
              /\ (/\ resp'.op \in {"getById", "update", "delete"}
                  /\ resp'.target = id
                  /\ \/ getByIdLoad(id)
                     \/ updateLoad(resp'.cred, id, resp'.body)
                     \/ deleteLoad(resp'.cred, id))
                 => /\ resp'.code = 404
                    /\ resp'.msg = "Broadcast not found"]_vars

\* an update that had loaded the broadcast saved after its deletion, and
\* the broadcast is not back
C20_Witness ==
    /\ resp.op = "update"
    /\ resp.code # 404
    /\ resp.target \in 1..nextBid
    /\ resp.target \notin DOMAIN broadcasts
====
